---- MODULE Spec2Model ----
(***************************************************************************)
(* Model of the static CRC-cascade hasher of rtl_static_hash:              *)
(*   src/py/crc_polynomials.py  - the polynomial catalog                   *)
(*   src/sim/static_hash.py     - StaticHasher (constructor, CRC, cascade  *)
(*                                assignment, table packing)               *)
(* Byte strings are sequences of integers 0..255.  A text line of the      *)
(* input file is a sequence of character codes.                            *)
(***************************************************************************)
EXTENDS Integers, Sequences, FiniteSets, TLC

(***************************************************************************)
(* Bit operations on naturals (Python's <<, >>, &, |, ^ on non-negative    *)
(* ints).                                                                  *)
(***************************************************************************)
\* 2^0 .. 2^30
PowersOfTwo ==
    <<1, 2, 4, 8, 16, 32, 64, 128, 256, 512, 1024, 2048, 4096, 8192, 16384, 32768,
      65536, 131072, 262144, 524288, 1048576, 2097152, 4194304, 8388608, 16777216,
      33554432, 67108864, 134217728, 268435456, 536870912, 1073741824>>

Pow2(n) == PowersOfTwo[n + 1]

RECURSIVE BitAnd(_, _)
BitAnd(a, b) ==
    IF a = 0 \/ b = 0 THEN 0
    ELSE ((a % 2) * (b % 2)) + 2 * BitAnd(a \div 2, b \div 2)

RECURSIVE BitOr(_, _)
BitOr(a, b) ==
    IF a = 0 THEN b
    ELSE IF b = 0 THEN a
    ELSE (IF (a % 2) + (b % 2) > 0 THEN 1 ELSE 0) + 2 * BitOr(a \div 2, b \div 2)

RECURSIVE BitXor(_, _)
BitXor(a, b) ==
    IF a = 0 THEN b
    ELSE IF b = 0 THEN a
    ELSE (((a % 2) + (b % 2)) % 2) + 2 * BitXor(a \div 2, b \div 2)

ShiftLeft(a, n) == a * Pow2(n)

ShiftRight(a, n) == a \div Pow2(n)

\* int.bit_length() of a non-negative int
RECURSIVE BitLength(_)
BitLength(n) == IF n = 0 THEN 0 ELSE 1 + BitLength(n \div 2)

\* int(math.log2(n)) for n >= 1
FloorLog2(n) == BitLength(n) - 1

Min(a, b) == IF a < b THEN a ELSE b

Max(a, b) == IF a > b THEN a ELSE b

Range(s) == {s[i] : i \in 1..Len(s)}

(***************************************************************************)
(* Python loops over a sequence.  Both helpers halve the index range, so   *)
(* a loop over a few hundred elements is evaluated at a depth of a few     *)
(* levels.                                                                 *)
(*  - ConcatRange: the concatenation Item(lo) \o ... \o Item(hi), which is *)
(*    a list comprehension (each Item is a list of zero or one elements).  *)
(*  - FoldRange: the value of s after s = Step(s, i) for i = lo..hi in     *)
(*    order.  s is compared with itself only so that the left half is      *)
(*    evaluated before the right half starts.                              *)
(***************************************************************************)
RECURSIVE ConcatRange(_, _, _)
ConcatRange(Item(_), lo, hi) ==
    IF lo > hi THEN <<>>
    ELSE IF lo = hi THEN Item(lo)
    ELSE ConcatRange(Item, lo, (lo + hi) \div 2)
           \o ConcatRange(Item, (lo + hi) \div 2 + 1, hi)

RECURSIVE FoldRange(_, _, _, _)
FoldRange(Step(_, _), s, lo, hi) ==
    IF s # s \/ lo > hi THEN s
    ELSE IF lo = hi THEN Step(s, lo)
    ELSE FoldRange(Step, FoldRange(Step, s, lo, (lo + hi) \div 2),
                   (lo + hi) \div 2 + 1, hi)

(***************************************************************************)
(* The polynomial catalog.  A Python dict keeps insertion order, so each   *)
(* width's group is a sequence of (name, parameters) in source order, and  *)
(* the widths are a sequence too.                                          *)
(***************************************************************************)
Poly(poly, name) ==
    [name |-> name, poly |-> poly, reflect_in |-> FALSE, xor_in |-> 0,
     reflect_out |-> FALSE, xor_out |-> 0]

CatalogWidths == <<8, 10, 12, 14, 16, 18, 20, 22, 24, 26, 28, 30>>

KOOPMAN_POLYNOMIALS ==
    [w \in Range(CatalogWidths) |->
      CASE w = 8 -> <<Poly(463, "CRC-8F-3"), Poly(333, "CRC-8K-3"),
                      Poly(285, "SAE-J1850"), Poly(355, "CCITT-8"),
                      Poly(383, "CRC-8F-8"), Poly(303, "CRC-8-AUTOSAR"),
                      Poly(423, "CRC-8-Bluetooth"), Poly(411, "WCDMA-8")>>
        [] w = 10 -> <<Poly(1615, "CRC-10F-3"), Poly(1531, "CRC-10F-8.1"),
                       Poly(1423, "CRC-10F-6.1"), Poly(1033, "FP-10"),
                       Poly(1167, "CRC-10F-4.2"), Poly(1469, "CRC-10F-8.2"),
                       Poly(2009, "CRC-10-CDMA2000"), Poly(1037, "FOP-11")>>
        [] w = 12 -> <<Poly(4879, "CRC-12F-3"), Poly(5223, "CRC-12K-7"),
                       Poly(4179, "FP-12"), Poly(7103, "CRC-12F-9"),
                       Poly(6079, "CRC-12K-5.2"), Poly(4221, "CRC-12F-6.1"),
                       Poly(4583, "CRC-12F-4.2"), Poly(7955, "CRC-12-CDMA2000")>>
        [] w = 14 -> <<Poly(20383, "CRC-14F-3"), Poly(20819, "CRC-14F-7"),
                       Poly(28639, "CRC-14F-11"), Poly(16427, "FP-14"),
                       Poly(30071, "CRC-14F-10.1"), Poly(26927, "CRC-14F-9"),
                       Poly(20179, "CRC-14K-3"), Poly(21663, "CRC-14K-8")>>
        [] w = 16 -> <<Poly(72491, "CRC-16F-3"), Poly(129919, "CRC-16F-11"),
                       Poly(65581, "FP-16"), Poly(102231, "CRC-16K-3"),
                       Poly(77629, "CRC-16F-10.1"), Poly(76879, "CRC-16K-5"),
                       Poly(116839, "CRC-16-CDMA2000"), Poly(101303, "CRC-16-T10-DIF")>>
        [] w = 18 -> <<Poly(291571, "CRC-18K-3.1"), Poly(262183, "FP-18"),
                       Poly(291197, "CRC-18K-3.5"), Poly(368959, "CRC-18K-3.6"),
                       Poly(276311, "CRC-18K-3.4"), Poly(359853, "CRC-18K-3.2"),
                       Poly(384147, "CRC-18K-3.3"), Poly(316539, "CRC-18K-11")>>
        [] w = 20 -> <<Poly(1486927, "CRC-20K-3.1"), Poly(1477999, "CRC-20K-3.5"),
                       Poly(1612559, "CRC-20K-3.7"), Poly(1436383, "CRC-20K-3.2"),
                       Poly(1687027, "CRC-20K-3.3"), Poly(1524887, "CRC-20K-3.6"),
                       Poly(1440183, "CRC-20K-3.8"), Poly(1380755, "CRC-20K-3.4")>>
        [] w = 22 -> <<Poly(6365095, "CRC-22K-3.1"), Poly(7194625, "CRC-22K-3.5"),
                       Poly(5413545, "CRC-22K-3.7"), Poly(7482323, "CRC-22K-3.10"),
                       Poly(5133163, "CRC-22K-3.9"), Poly(7833133, "CRC-22K-3.2"),
                       Poly(8253795, "CRC-22K-3.4"), Poly(4972283, "CRC-22K-3.3")>>
        [] w = 24 -> <<Poly(16777243, "CRC-24K-3.1"), Poly(18817479, "CRC-24K-3.2"),
                       Poly(24857003, "CRC-24K-3.8"), Poly(19371679, "CRC-24K-3.3"),
                       Poly(24034647, "CRC-24K-3.7"), Poly(19408557, "CRC-24K-3.6"),
                       Poly(21916495, "CRC-24K-3.9"), Poly(24177195, "CRC-24K-3.10")>>
        [] w = 26 -> <<Poly(108540895, "CRC-26K-3.1"), Poly(122477727, "CRC-26K-3.6"),
                       Poly(83717991, "CRC-26K-3.11"), Poly(86066677, "CRC-26K-3.7"),
                       Poly(113857943, "CRC-26K-3.2"), Poly(124528847, "CRC-26K-3.5"),
                       Poly(131277399, "CRC-26K-3.12"), Poly(86634301, "CRC-26K-3.4")>>
        [] w = 28 -> <<Poly(305890247, "CRC-28K-3.1"), Poly(271335883, "CRC-28K-3.5"),
                       Poly(396421287, "CRC-28K-3.4"), Poly(434971439, "CRC-28K-3.9"),
                       Poly(292846295, "CRC-28K-3.2"), Poly(287968445, "CRC-28K-3.8"),
                       Poly(282512057, "CRC-28K-3.11"), Poly(379424799, "CRC-28K-3.10")>>
        [] w = 30 -> <<Poly(1651004511, "CRC-30K-3.1"), Poly(1421288251, "CRC-30K-3.3"),
                       Poly(1755665223, "CRC-30K-3.11"), Poly(1097234577, "CRC-30K-3.8"),
                       Poly(1227018411, "CRC-30K-3.9"), Poly(1646323299, "CRC-30K-3.2"),
                       Poly(1362096331, "CRC-30K-3.13"), Poly(1188234695, "CRC-30K-3.12")>>]

(***************************************************************************)
(* The CRC engine the hasher calls: pycrc's Crc(width, poly, reflect_in,   *)
(* xor_in, reflect_out, xor_out).table_driven(data), in the branch taken   *)
(* for reflect_in = False, which is the value of every catalog entry.      *)
(* A calculator is a catalog record together with the width it was built   *)
(* for.                                                                    *)
(***************************************************************************)
RECURSIVE GenTableShift(_, _, _, _)
GenTableShift(reg, msb_mask, poly, n) ==
    IF n = 0 THEN reg
    ELSE GenTableShift(IF (reg \div msb_mask) % 2 = 1
                         THEN BitXor(ShiftLeft(reg, 1), poly)
                         ELSE ShiftLeft(reg, 1),
                       msb_mask, poly, n - 1)

\* gen_table()[0][i]: the register after clocking byte i through it
CrcTableEntry(width, poly, i) ==
    GenTableShift(ShiftLeft(i, width - 8), Pow2(width - 1), poly, 8) % Pow2(width)

\* gen_table()[0], as a sequence: entry i is at position i + 1
GenTable(width, poly) ==
    LET Item(k) == <<CrcTableEntry(width, poly, k - 1)>>
    IN  ConcatRange(Item, 1, 256)

\* The byte tables of the catalog polynomials, by position of the width in
\* CatalogWidths and of the polynomial in its group.  pycrc builds the table
\* anew in every table_driven call; it depends on width and poly only.  Only
\* the widths in TableWidths are tabulated.
GroupTables(w, grp) ==
    LET Item(k) == <<GenTable(w, grp[k].poly)>>
    IN  ConcatRange(Item, 1, Len(grp))

CrcTablesFor(TableWidths) ==
    LET Group(g) ==
          IF CatalogWidths[g] \in TableWidths
          THEN <<GroupTables(CatalogWidths[g], KOOPMAN_POLYNOMIALS[CatalogWidths[g]])>>
          ELSE << <<>> >>
    IN  ConcatRange(Group, 1, Len(CatalogWidths))

\* one octet of table_driven's loop; (reg << 8) & mask is computed as
\* (reg mod 2^(width-8)) << 8, which is the same number
CrcOctet(width, tbl, reg, octet) ==
    LET tblidx == BitXor(ShiftRight(reg, width - 8), octet) % 256
    IN  BitXor(ShiftLeft(reg % Pow2(width - 8), 8), tbl[tblidx + 1])

RECURSIVE CrcFold(_, _, _, _, _)
CrcFold(width, tbl, reg, data, i) ==
    IF i > Len(data) THEN reg
    ELSE CrcFold(width, tbl, CrcOctet(width, tbl, reg, data[i]), data, i + 1)

\* Crc(width, poly, ...).table_driven(data), given the calculator's catalog
\* record and its byte table
table_driven(width, calc, tbl, data) ==
    BitXor(CrcFold(width, tbl, calc.xor_in, data, 1), calc.xor_out) % Pow2(width)

(***************************************************************************)
(* Python containers.                                                      *)
(*  - a dict is the sequence of its (key, value) entries in insertion      *)
(*    order; setting an existing key keeps its place.                      *)
(*  - a bytearray is its length and its non-zero bytes (offset -> value);  *)
(*    every other byte below the length is zero.                           *)
(***************************************************************************)
DictKeys(d) == {d[i].key : i \in 1..Len(d)}

\* d[k]
DictGet(d, k) == d[CHOOSE i \in 1..Len(d) : d[i].key = k].value

DictSet(d, k, v) ==
    IF k \in DictKeys(d)
    THEN [i \in 1..Len(d) |-> IF d[i].key = k THEN [key |-> k, value |-> v] ELSE d[i]]
    ELSE Append(d, [key |-> k, value |-> v])

\* bytearray(n)
ZeroBytes(n) == [len |-> n, nz |-> <<>>]

ByteAt(ba, off) == IF off \in DOMAIN ba.nz THEN ba.nz[off] ELSE 0

\* ba[lo:hi] = data, with Python's clamping of slice bounds to the length:
\* a slice that starts at or past the end inserts the data at the end
SliceAssign(ba, lo, hi, data) ==
    LET lo_c  == Min(lo, ba.len)
        hi_c  == Max(Min(hi, ba.len), lo_c)
        shift == Len(data) - (hi_c - lo_c)
        keep  == {o \in DOMAIN ba.nz : o < lo_c \/ o >= hi_c}
        moved == {IF o < lo_c THEN o ELSE o + shift : o \in keep}
        fresh == {lo_c + (j - 1) : j \in {j \in 1..Len(data) : data[j] # 0}}
    IN  [len |-> ba.len + shift,
         nz  |-> [o \in moved \cup fresh |->
                    IF o \in fresh THEN data[o - lo_c + 1]
                    ELSE IF o < lo_c THEN ba.nz[o] ELSE ba.nz[o - shift]]]

\* ba[lo:hi] as a sequence of bytes, clamped the same way
Slice(ba, lo, hi) ==
    LET lo_c == Min(lo, ba.len)
        hi_c == Max(Min(hi, ba.len), lo_c)
        Item(j) == <<ByteAt(ba, lo_c + j - 1)>>
    IN  ConcatRange(Item, 1, hi_c - lo_c)

\* int.from_bytes(b, 'little')
RECURSIVE FromBytesLittle(_)
FromBytesLittle(b) ==
    IF b = <<>> THEN 0 ELSE b[1] + 256 * FromBytesLittle(Tail(b))

\* n.to_bytes(length, 'little')
ToBytesLittle(n, length) ==
    LET Item(j) == <<ShiftRight(n, 8 * (j - 1)) % 256>>
    IN  ConcatRange(Item, 1, length)

(***************************************************************************)
(* StaticHasher.__init__                                                   *)
(***************************************************************************)
\* mutant of InitMaxIds: the bit length of the argument itself is taken
InitMaxIds_OfArgument(arg) == Pow2(BitLength(arg))

\* self.max_ids: the argument rounded up to a power of two
InitMaxIds(arg) == Pow2(BitLength(arg - 1))

\* required_bits = int(math.log2(max_ids)), of the argument itself
RequiredBits(arg) == FloorLog2(arg)

\* required_bits if required_bits % 2 == 0 else required_bits + 1
RoundEven(required_bits) ==
    IF required_bits % 2 = 0 THEN required_bits ELSE required_bits + 1

EvenWidth(arg) == RoundEven(RequiredBits(arg))

\* min(KOOPMAN_POLYNOMIALS.keys())
MinAvailableWidth ==
    CHOOSE w \in Range(CatalogWidths) : \A v \in Range(CatalogWidths) : w <= v

InitCrcWidth(arg) ==
    IF EvenWidth(arg) < MinAvailableWidth THEN MinAvailableWidth ELSE EvenWidth(arg)

\* mutant of InitIdMask: the mask is as wide as the CRC
InitIdMask_OfWidth(arg) == ShiftLeft(1, InitCrcWidth(arg)) - 1

InitIdMask(arg) == ShiftLeft(1, RequiredBits(arg)) - 1

\* bytes per table entry
id_bytes == 4

\* max_ids arguments the constructor accepts
MaxIdsArgs == {1, 2, 3, 8, 256, 300, 32768}

\* A Python int of any size, as CPython keeps it: its digits in base 2^30,
\* least significant first, the last one non-zero.
DigitBase == Pow2(30)

\* the digits of an int below 2^31
IntDigits(n) ==
    IF n < DigitBase THEN <<n>> ELSE <<n % DigitBase, n \div DigitBase>>

\* the int of at most two digits whose value is below 2^31
DigitsValue(digits) ==
    IF Len(digits) = 1 THEN digits[1] ELSE digits[1] + digits[2] * DigitBase

\* int.bit_length()
DigitsBitLength(digits) ==
    30 * (Len(digits) - 1) + BitLength(digits[Len(digits)])

\* int(math.log2(max_ids)); math.log2 rounds to a double, which gives the
\* floor for every int below 2^48 and at least 48 above
DigitsRequiredBits(digits) == DigitsBitLength(digits) - 1

\* the widest CRC the constructor accepts
MaxCrcWidth == 30

\* if self.crc_width > 30: raise ValueError
ConstructorRaises(digits) == RoundEven(DigitsRequiredBits(digits)) > MaxCrcWidth

\* max_ids arguments the constructor refuses: 2^31, 2^31 + 5, 2^60
LargeMaxIdsArgs == {<<0, 2>>, <<5, 2>>, <<0, 0, 1>>}

\* the arguments the constructor is called with
ConstructorArgs == {IntDigits(arg) : arg \in MaxIdsArgs} \cup LargeMaxIdsArgs

\* the byte tables of the calculators of the hashers constructed
CrcTables == CrcTablesFor({InitCrcWidth(arg) : arg \in MaxIdsArgs})

\* bytearray(self.id_bytes*8*self.max_ids)
InitHashTableBin(arg) == ZeroBytes(id_bytes * 8 * InitMaxIds(arg))

(***************************************************************************)
(* The state: the hasher's fields, and what process_file has read and      *)
(* computed.                                                               *)
(***************************************************************************)
VARIABLES
    arg_digits,      \* the max_ids the constructor was called with, as digits
    arg_max_ids,     \* the same as a number, 0 when the constructor refused it
    max_ids,         \* self.max_ids
    crc_width,       \* self.crc_width
    id_mask,         \* self.id_mask
    hash_table_bin,  \* self.hash_table_bin (packed table)
    hash_table,      \* self.hash_table (readable table, a dict)
    pc,              \* "constructed", "rejected" (the constructor raised),
                     \* "done" (process_file returned), "exited"
    in_lines,        \* the lines of the input file handed to process_file
    in_format,       \* its format argument
    strings,         \* process_file's cleaned symbols
    hex_strings,     \* the symbols handed to assign_hash_functions
    cascade,         \* assign_hash_functions' locals when its loop ended
    assignments,     \* the mapping it returned (empty when it did not return)
    error,           \* the error process_file exited with, k for the count
    calls,           \* how often process_file was called on the hasher
    result_bin,      \* the file dump_binary_table wrote: <<>> or <<its bytes>>
    result_txt,      \* the file dump_readable_table wrote: <<>> or <<its lines>>
    lookup           \* the last call of get_poly_index: its name and outcome

vars == <<arg_digits, arg_max_ids, max_ids, crc_width, id_mask, hash_table_bin, hash_table,
          pc, in_lines, in_format, strings, hex_strings, cascade, assignments,
          error, calls, result_bin, result_txt, lookup>>

\* self.polynomials / self.crc_calculators: the catalog group of the width,
\* in catalog order
polynomials == KOOPMAN_POLYNOMIALS[crc_width]

crc_names == [i \in 1..Len(polynomials) |-> polynomials[i].name]

\* self.crc_calculators[crc_name], as the position of the calculator
Calculator(crc_name) ==
    CHOOSE i \in 1..Len(polynomials) : polynomials[i].name = crc_name

\* the position of the hasher's width in the catalog
WidthIndex == CHOOSE g \in 1..Len(CatalogWidths) : CatalogWidths[g] = crc_width

\* StaticHasher.calculate_crc
\* crc_calc.table_driven(text) & self.id_mask, crc_calc the calculator at
\* position k of the group grp of the width
MaskedTableDriven(text, grp, tbls, k) ==
    BitAnd(table_driven(crc_width, grp[k], tbls[k], text), id_mask)

calculate_crc(text, crc_name) ==
    MaskedTableDriven(text, polynomials, CrcTables[WidthIndex], Calculator(crc_name))

(***************************************************************************)
(* StaticHasher.find_conflicts                                             *)
(***************************************************************************)
\* the hash value of each string, in the order of the strings
HashValues(strs, crc_name) ==
    LET Item(i) == <<calculate_crc(strs[i], crc_name)>>
    IN  ConcatRange(Item, 1, Len(strs))

\* mutant of HashToStrings: a bucket lists each distinct string once
HashToStrings_Dedup(strs, hv) ==
    [h \in Range(hv) |->
       LET Item(i) ==
             IF hv[i] = h /\ \A k \in 1..(i - 1) : strs[k] # strs[i]
             THEN <<strs[i]>> ELSE <<>>
       IN  ConcatRange(Item, 1, Len(strs))]

\* hash_to_strings, given the hash value of each string: each bucket lists
\* its strings in the order they were appended
HashToStrings(strs, hv) ==
    [h \in Range(hv) |->
       LET Item(i) == IF hv[i] = h THEN <<strs[i]>> ELSE <<>>
       IN  ConcatRange(Item, 1, Len(strs))]

\* mutant of ConflictBuckets: a bucket counts as conflicting from three
\* strings on
ConflictBuckets_FromThree(hts) == {h \in DOMAIN hts : Len(hts[h]) > 2}

\* the buckets that hold more than one string
ConflictBuckets(hts) == {h \in DOMAIN hts : Len(hts[h]) > 1}

\* conflicts: the buckets of hash_to_strings with more than one string
Conflicts(hts) == [h \in ConflictBuckets(hts) |-> hts[h]]

find_conflicts(strs, crc_name) ==
    Conflicts(HashToStrings(strs, HashValues(strs, crc_name)))

(***************************************************************************)
(* StaticHasher.assign_hash_functions.  Its locals are the record          *)
(*   [result, remaining_strings, next_unique_id, passes]                   *)
(* where result is the dict string -> (crc_name, unique_id) and passes     *)
(* counts the iterations of the loop over the calculators.                 *)
(***************************************************************************)
\* conflicted_strings: every string of every conflicting bucket
ConflictedStrings(conflicts) == UNION {Range(conflicts[h]) : h \in DOMAIN conflicts}

\* mutant of AssignOne: the id counter also advances for a conflicted string
AssignOne_CountsSkipped(st, string, conflicted, crc_name) ==
    IF string \notin conflicted
    THEN [st EXCEPT !.result = DictSet(@, string,
                                 [crc_name |-> crc_name,
                                  unique_id |-> st.next_unique_id]),
                    !.next_unique_id = @ + 1]
    ELSE [st EXCEPT !.next_unique_id = @ + 1]

\* the body of the assignment loop for one string
AssignOne(st, string, conflicted, crc_name) ==
    IF string \notin conflicted
    THEN [st EXCEPT !.result = DictSet(@, string,
                                 [crc_name |-> crc_name,
                                  unique_id |-> st.next_unique_id]),
                    !.next_unique_id = @ + 1]
    ELSE st

\* mutant of AssignFree: remaining_strings is visited last to first
AssignFree_Backwards(st, rem, conflicted, crc_name) ==
    LET Step(s, i) == AssignOne(s, rem[Len(rem) + 1 - i], conflicted, crc_name)
    IN  FoldRange(Step, st, 1, Len(rem))

\* the assignment loop over remaining_strings
AssignFree(st, rem, conflicted, crc_name) ==
    LET Step(s, i) == AssignOne(s, rem[i], conflicted, crc_name)
    IN  FoldRange(Step, st, 1, Len(rem))

\* mutant of Without: the assigned strings are not removed
Without_KeepsAll(rem, newly_assigned) == rem

\* [s for s in remaining_strings if s not in newly_assigned]
Without(rem, newly_assigned) ==
    LET Item(i) == IF rem[i] \in newly_assigned THEN <<>> ELSE <<rem[i]>>
    IN  ConcatRange(Item, 1, Len(rem))

\* mutant of CascadePass: conflicts are looked for among all the strings,
\* the ones assigned by earlier passes included
\* newly_assigned: the remaining strings that are not conflicted
NewlyAssigned(rem, conflicted) == {s \in Range(rem) : s \notin conflicted}

\* mutant of AssignPass: the pass starts from an empty result
AssignPass_ForgetsEarlier(st, conflicted, crc_name) ==
    [AssignFree([st EXCEPT !.result = <<>>], st.remaining_strings, conflicted, crc_name)
       EXCEPT !.remaining_strings =
                Without(st.remaining_strings,
                        {s \in Range(st.remaining_strings) : s \notin conflicted}),
              !.passes = @ + 1]

\* one iteration of the loop over the calculators, given conflicted_strings
AssignPass(st, conflicted, crc_name) ==
    [AssignFree(st, st.remaining_strings, conflicted, crc_name)
       EXCEPT !.remaining_strings =
                Without(st.remaining_strings,
                        NewlyAssigned(st.remaining_strings, conflicted)),
              !.passes = @ + 1]

\* the keys of a dict, in insertion order
KeyList(d) == [i \in 1..Len(d) |-> d[i].key]

\* mutant of CascadePass: conflicts are looked for among all the strings,
\* the ones assigned by earlier passes included
CascadePass_AllStrings(st, crc_name) ==
    AssignPass(st,
               ConflictedStrings(find_conflicts(KeyList(st.result) \o st.remaining_strings,
                                                crc_name)),
               crc_name)

\* one iteration of the loop over the calculators
CascadePass(st, crc_name) ==
    AssignPass(st, ConflictedStrings(find_conflicts(st.remaining_strings, crc_name)),
               crc_name)

\* the loop, from calculator i on, with its break: next is the locals after
\* iteration i
RECURSIVE CascadeLoop(_, _)
CascadeBreak(next, i) ==
    IF next.remaining_strings = <<>> THEN next ELSE CascadeLoop(next, i + 1)

CascadeLoop(st, i) ==
    IF i > Len(crc_names) THEN st
    ELSE CascadeBreak(CascadePass(st, crc_names[i]), i)

CascadeStart(strs) ==
    [result |-> <<>>, remaining_strings |-> strs, next_unique_id |-> 0, passes |-> 0]

\* the locals when the loop is left
RunCascade(strs) == CascadeLoop(CascadeStart(strs), 1)

\* the final test: raise when strings remain, else return result
CascadeRaises(st) == Len(st.remaining_strings) # 0

(***************************************************************************)
(* get_poly_index: the position of the name in the first catalog group     *)
(* that holds it; the function falls off its end (None, here -1) when no   *)
(* group does.                                                             *)
(***************************************************************************)
GroupIndex(grp, name) ==
    (CHOOSE i \in 1..Len(grp) : grp[i].name = name) - 1

RECURSIVE PolyIndexFrom(_, _)
PolyIndexFrom(name, g) ==
    IF g > Len(CatalogWidths) THEN -1
    ELSE LET grp == KOOPMAN_POLYNOMIALS[CatalogWidths[g]]
         IN  IF \E i \in 1..Len(grp) : grp[i].name = name
             THEN GroupIndex(grp, name)
             ELSE PolyIndexFrom(name, g + 1)

get_poly_index(name) == PolyIndexFrom(name, 1)

(***************************************************************************)
(* StaticHasher.process_file: reading and cleaning the lines.              *)
(***************************************************************************)
\* the ASCII characters str.strip() removes
StripChars == {9, 10, 11, 12, 13, 28, 29, 30, 31, 32}

RECURSIVE LStrip(_)
LStrip(line) ==
    IF line # <<>> /\ Head(line) \in StripChars THEN LStrip(Tail(line)) ELSE line

RECURSIVE RStrip(_)
RStrip(line) ==
    IF line # <<>> /\ line[Len(line)] \in StripChars
    THEN RStrip(SubSeq(line, 1, Len(line) - 1)) ELSE line

\* line.strip()
Strip(line) == RStrip(LStrip(line))

\* the value of a hexadecimal digit, 16 for any other character
HexDigit(c) ==
    IF c \in 48..57 THEN c - 48
    ELSE IF c \in 65..70 THEN c - 55
    ELSE IF c \in 97..102 THEN c - 87
    ELSE 16

\* bytes.fromhex(line) from position i on: pairs of hexadecimal digits,
\* blanks skipped between pairs; ok = FALSE is its ValueError
RECURSIVE FromHex(_, _)
FromHex(line, i) ==
    IF i > Len(line) THEN [ok |-> TRUE, bytes |-> <<>>]
    ELSE IF line[i] \in {9, 10, 11, 12, 13, 32} THEN FromHex(line, i + 1)
    ELSE IF i + 1 > Len(line) \/ HexDigit(line[i]) = 16 \/ HexDigit(line[i + 1]) = 16
    THEN [ok |-> FALSE, bytes |-> <<>>]
    ELSE LET rest == FromHex(line, i + 2)
         IN  [ok |-> rest.ok,
              bytes |-> <<16 * HexDigit(line[i]) + HexDigit(line[i + 1])>> \o rest.bytes]

\* the longest symbol process_file accepts, in bytes
MaxSymbolBytes == 32

NoError == [kind |-> "none", k |-> 0]

Failure(kind, k) == [kind |-> kind, k |-> k]

\* the body of the loop over the lines for line i, on the record of the
\* error raised so far and the symbols kept so far; a raised error ends
\* the loop, so the lines after it change nothing
CleanLine(st, raw, format, i) ==
    LET line == Strip(raw)
    IN  IF st.error.kind # "none" THEN st
        ELSE IF format = "ascii"
        THEN IF Len(line) > MaxSymbolBytes
             THEN [st EXCEPT !.error = Failure("SymbolTooLong", i)]
             ELSE IF line # <<>> THEN [st EXCEPT !.strings = Append(@, line)]
             ELSE st
        ELSE IF line = <<>> THEN st
        ELSE LET hex_bytes == FromHex(line, 1)
             IN  IF ~hex_bytes.ok
                 THEN [st EXCEPT !.error = Failure("InputEncoding", i)]
                 ELSE IF Len(hex_bytes.bytes) > MaxSymbolBytes
                 THEN [st EXCEPT !.error = Failure("SymbolTooLong", i)]
                 ELSE [st EXCEPT !.strings = Append(@, hex_bytes.bytes)]

\* the loop over the lines
CleanLines(lines, format) ==
    LET Step(st, i) == CleanLine(st, lines[i], format, i)
    IN  FoldRange(Step, [error |-> NoError, strings |-> <<>>], 1, Len(lines))

\* max(map(len, strings), default=0)
LineSize(strs) ==
    IF strs = <<>> THEN 0
    ELSE CHOOSE n \in {Len(strs[i]) : i \in 1..Len(strs)} :
           \A i \in 1..Len(strs) : Len(strs[i]) <= n

\* int.from_bytes(s.encode("ascii"), 'little').to_bytes(line_size, 'little')
Normalize(s, line_size) == ToBytesLittle(FromBytesLittle(s), line_size)

\* hex_strings: the symbols as handed to assign_hash_functions
HexStrings(strs, format, line_size) ==
    IF format = "ascii"
    THEN LET Item(i) == <<Normalize(strs[i], line_size)>>
         IN  ConcatRange(Item, 1, Len(strs))
    ELSE strs

(***************************************************************************)
(* StaticHasher.process_file: writing the two tables.                      *)
(***************************************************************************)
\* the slot of a string under a polynomial
SlotAddr(string, crc_func) ==
    BitOr(ShiftLeft(get_poly_index(crc_func), crc_width), calculate_crc(string, crc_func))

\* unique_id | (1 << self.crc_width)
Content(unique_id) == BitOr(unique_id, ShiftLeft(1, crc_width))

\* the body of the loop over assignments.items() for one entry
WriteEntry(bin, string, crc_func, unique_id) ==
    LET addr == SlotAddr(string, crc_func)
    IN  SliceAssign(bin, addr * id_bytes, (addr + 1) * id_bytes,
                    ToBytesLittle(Content(unique_id), id_bytes))

\* the loop over assignments.items()
WriteBin(bin, assigned) ==
    LET Step(b, i) == WriteEntry(b, assigned[i].key, assigned[i].value.crc_name,
                                 assigned[i].value.unique_id)
    IN  FoldRange(Step, bin, 1, Len(assigned))

\* the key under which a cleaned symbol is found in the assignments
AssignmentKey(string, format, line_size) ==
    IF format = "ascii" THEN Normalize(string, line_size) ELSE string

\* mutant of WriteReadable: the strings are visited last to first
WriteReadable_Backwards(table, assigned, strs, format, line_size) ==
    LET Step(tb, i) ==
          DictSet(tb, strs[Len(strs) + 1 - i],
                  DictGet(assigned,
                          AssignmentKey(strs[Len(strs) + 1 - i], format, line_size)).unique_id)
    IN  FoldRange(Step, table, 1, Len(strs))

\* the loop over strings filling hash_table
WriteReadable(table, assigned, strs, format, line_size) ==
    LET Step(tb, i) ==
          DictSet(tb, strs[i],
                  DictGet(assigned, AssignmentKey(strs[i], format, line_size)).unique_id)
    IN  FoldRange(Step, table, 1, Len(strs))

(***************************************************************************)
(* StaticHasher.process_file as a whole: what it leaves behind for the     *)
(* given lines and format, as a record of the new values.  Every error     *)
(* is caught at the end of process_file, printed, and ends the process     *)
(* (sys.exit(1)).                                                          *)
(***************************************************************************)
\* locals of assign_hash_functions when it was never called
CascadeNotRun ==
    [result |-> <<>>, remaining_strings |-> <<>>, next_unique_id |-> 0, passes |-> 0]

\* mutant of Exited: the assignments made before the error are written
Exited_WritesAssigned(err, strs, hexs, casc) ==
    [error |-> err, strings |-> strs, hex_strings |-> hexs, cascade |-> casc,
     assignments |-> <<>>,
     hash_table_bin |-> WriteBin(hash_table_bin, casc.result),
     hash_table |-> hash_table]

Exited(err, strs, hexs, casc) ==
    [error |-> err, strings |-> strs, hex_strings |-> hexs, cascade |-> casc,
     assignments |-> <<>>, hash_table_bin |-> hash_table_bin,
     hash_table |-> hash_table]

\* the count test of process_file
TooManyStrings(strs) == Len(strs) > max_ids

\* from the call of assign_hash_functions on: casc is the locals it ends with
WriteResults(strs, format, line_size, hexs, casc) ==
    IF CascadeRaises(casc)
    THEN Exited(Failure("UnresolvableConflicts", Len(casc.remaining_strings)),
                strs, hexs, casc)
    ELSE [error |-> NoError, strings |-> strs, hex_strings |-> hexs,
          cascade |-> casc, assignments |-> casc.result,
          hash_table_bin |-> WriteBin(hash_table_bin, casc.result),
          hash_table |-> WriteReadable(hash_table, casc.result, strs, format, line_size)]

\* from hex_strings on
AssignAndWrite(strs, format, line_size, hexs) ==
    WriteResults(strs, format, line_size, hexs, RunCascade(hexs))

\* from line_size on
NormalizeAndAssign(strs, format, line_size) ==
    AssignAndWrite(strs, format, line_size, HexStrings(strs, format, line_size))

\* from the end of the loop over the lines on
CountAndAssign(cleaned, format) ==
    IF cleaned.error.kind # "none"
    THEN Exited(cleaned.error, cleaned.strings, <<>>, CascadeNotRun)
    ELSE IF TooManyStrings(cleaned.strings)
    THEN Exited(Failure("TooManySymbols", max_ids), cleaned.strings, <<>>, CascadeNotRun)
    ELSE NormalizeAndAssign(cleaned.strings, format, LineSize(cleaned.strings))

process_file(lines, format) ==
    IF \E i \in 1..Len(lines) : \E j \in 1..Len(lines[i]) : lines[i][j] > 127
    THEN Exited(Failure("InputEncoding", 0), <<>>, <<>>, CascadeNotRun)
    ELSE CountAndAssign(CleanLines(lines, format), format)

(***************************************************************************)
(* The inputs explored.                                                    *)
(***************************************************************************)
\* the longest input file built line by line from InputLines
MaxLines == 3

\* the number of lines of the large input file
BulkLines == 301

Formats == {"ascii", "hex"}

\* a line of 66 characters "4": too long as text and as hexadecimal
LongLine == [j \in 1..(2 * MaxSymbolBytes + 2) |-> 52]

\* "A", "A" followed by a NUL character, "AA", "41", "4142", a blank line,
\* and the long line
InputLines == {<<65>>, <<65, 0>>, <<65, 65>>, <<52, 49>>, <<52, 49, 52, 50>>, <<32>>,
               LongLine}

SmallFiles == UNION {[1..n -> InputLines] : n \in 0..MaxLines}

\* a file of n distinct two-character lines over the printable characters
BulkFile(n) == [k \in 1..n |-> <<33 + ((k - 1) % 94), 33 + ((k - 1) \div 94)>>]

InputFiles == SmallFiles \cup {BulkFile(BulkLines)}

(***************************************************************************)
(* The state machine: a hasher is constructed, then process_file is        *)
(* called on it once.                                                      *)
(***************************************************************************)
\* get_poly_index was not called
NoLookup == [name |-> "", outcome |-> "none", value |-> 0]

\* StaticHasher(arg) returned
Constructed(arg) ==
    /\ arg_max_ids = arg
    /\ max_ids = InitMaxIds(arg)
    /\ crc_width = InitCrcWidth(arg)
    /\ id_mask = InitIdMask(arg)
    /\ hash_table_bin = InitHashTableBin(arg)
    /\ pc = "constructed"
    /\ error = NoError

\* StaticHasher(arg) raised: there is no hasher
Rejected ==
    /\ arg_max_ids = 0
    /\ max_ids = 0
    /\ crc_width = 0
    /\ id_mask = 0
    /\ hash_table_bin = ZeroBytes(0)
    /\ pc = "rejected"
    /\ error = Failure("MaxIdsTooLarge", 0)

Init ==
    /\ arg_digits \in ConstructorArgs
    /\ IF ConstructorRaises(arg_digits)
       THEN Rejected
       ELSE Constructed(DigitsValue(arg_digits))
    /\ hash_table = <<>>
    /\ in_lines = <<>>
    /\ in_format = "ascii"
    /\ strings = <<>>
    /\ hex_strings = <<>>
    /\ cascade = CascadeNotRun
    /\ assignments = <<>>
    /\ calls = 0
    /\ result_bin = <<>>
    /\ result_txt = <<>>
    /\ lookup = NoLookup

\* the state process_file leaves, out being the record of its results
Leaves(out) ==
    /\ strings' = out.strings
    /\ hex_strings' = out.hex_strings
    /\ cascade' = out.cascade
    /\ assignments' = out.assignments
    /\ hash_table_bin' = out.hash_table_bin
    /\ hash_table' = out.hash_table
    /\ error' = out.error
    /\ pc' = IF out.error.kind = "none" THEN "done" ELSE "exited"

ProcessFile(lines, format) ==
    /\ pc = "constructed"
    /\ in_lines' = lines
    /\ in_format' = format
    /\ Leaves(process_file(lines, format))
    /\ calls' = 1
    /\ UNCHANGED <<arg_digits, arg_max_ids, max_ids, crc_width, id_mask,
                   result_bin, result_txt, lookup>>

\* how often process_file is called on one hasher
MaxCalls == 2

\* process_file called again on the same hasher with the same file, after it
\* returned (an error ends the process)
ProcessFileAgain ==
    /\ pc = "done"
    /\ calls < MaxCalls
    /\ Leaves(process_file(in_lines, in_format))
    /\ calls' = calls + 1
    /\ UNCHANGED <<arg_digits, arg_max_ids, max_ids, crc_width, id_mask,
                   in_lines, in_format, result_bin, result_txt, lookup>>

\* f.write(self.hash_table_bin)
dump_binary_table == hash_table_bin

\* the lines f"{string} -> {unique_id}\n" in the order of hash_table.items(),
\* each as the pair it is formatted from
dump_readable_table ==
    [i \in 1..Len(hash_table) |->
       [string |-> hash_table[i].key, unique_id |-> hash_table[i].value]]

\* hasher.dump_binary_table(...), which main calls after process_file returned
DumpBinaryTable ==
    /\ pc = "done"
    /\ result_bin' = <<dump_binary_table>>
    /\ UNCHANGED <<arg_digits, arg_max_ids, max_ids, crc_width, id_mask,
                   hash_table_bin, hash_table, pc, in_lines, in_format, strings,
                   hex_strings, cascade, assignments, error, calls, result_txt,
                   lookup>>

\* hasher.dump_readable_table(...)
DumpReadableTable ==
    /\ pc = "done"
    /\ result_txt' = <<dump_readable_table>>
    /\ UNCHANGED <<arg_digits, arg_max_ids, max_ids, crc_width, id_mask,
                   hash_table_bin, hash_table, pc, in_lines, in_format, strings,
                   hex_strings, cascade, assignments, error, calls, result_bin,
                   lookup>>

Next ==
    \/ \E lines \in InputFiles, format \in Formats : ProcessFile(lines, format)
    \/ ProcessFileAgain
    \/ DumpBinaryTable
    \/ DumpReadableTable

Spec == Init /\ [][Next]_vars

(***************************************************************************)
(* assign_hash_functions pass by pass: the hasher is constructed, the      *)
(* function is called with a list of symbols, and every iteration of its   *)
(* loop over the calculators is a step.  pc is "assigning" inside the      *)
(* loop, "left" after it, then "returned" or "raised".                     *)
(***************************************************************************)
\* symbols of one length, as process_file hands them over
CascadeSymbols == {<<65, 0>>, <<65, 65>>, <<52, 49>>, <<52, 50>>, <<66, 67>>}

CascadeInputs ==
    UNION {[1..n -> CascadeSymbols] : n \in 0..MaxLines}
      \cup {HexStrings(BulkFile(BulkLines), "ascii", 2)}

InitCascade ==
    /\ arg_digits \in {IntDigits(arg) : arg \in MaxIdsArgs}
    /\ arg_max_ids = DigitsValue(arg_digits)
    /\ max_ids = InitMaxIds(arg_max_ids)
    /\ crc_width = InitCrcWidth(arg_max_ids)
    /\ id_mask = InitIdMask(arg_max_ids)
    /\ hash_table_bin = InitHashTableBin(arg_max_ids)
    /\ hash_table = <<>>
    /\ pc = "assigning"
    /\ in_lines = <<>>
    /\ in_format = "ascii"
    /\ strings = <<>>
    /\ hex_strings \in CascadeInputs
    /\ cascade = CascadeStart(hex_strings)
    /\ assignments = <<>>
    /\ error = NoError
    /\ calls = 0
    /\ result_bin = <<>>
    /\ result_txt = <<>>
    /\ lookup = NoLookup

\* where the loop stands after an iteration that left the locals next
AfterPass(next) ==
    IF next.remaining_strings = <<>> \/ next.passes = Len(crc_names)
    THEN "left" ELSE "assigning"

\* one iteration of the loop over self.crc_calculators
Pass ==
    /\ pc = "assigning"
    /\ cascade.passes < Len(crc_names)
    /\ cascade' = CascadePass(cascade, crc_names[cascade.passes + 1])
    /\ pc' = AfterPass(cascade')
    /\ UNCHANGED <<arg_digits, arg_max_ids, max_ids, crc_width, id_mask,
                   hash_table_bin, hash_table, in_lines, in_format, strings,
                   hex_strings, assignments, error, calls, result_bin,
                   result_txt, lookup>>

\* the test after the loop: raise, or return result
Finish ==
    /\ pc = "left"
    /\ pc' = IF CascadeRaises(cascade) THEN "raised" ELSE "returned"
    /\ assignments' = IF CascadeRaises(cascade) THEN <<>> ELSE cascade.result
    /\ error' = IF CascadeRaises(cascade)
                THEN Failure("UnresolvableConflicts", Len(cascade.remaining_strings))
                ELSE NoError
    /\ UNCHANGED <<arg_digits, arg_max_ids, max_ids, crc_width, id_mask,
                   hash_table_bin, hash_table, in_lines, in_format, strings,
                   hex_strings, cascade, calls, result_bin, result_txt, lookup>>

NextCascade == Pass \/ Finish

SpecCascade == InitCascade /\ [][NextCascade]_vars

(***************************************************************************)
(* get_poly_index on its own: the function is called with a name, from     *)
(* the catalog or not.  It has no raise statement; when no group holds     *)
(* the name it returns None, which is the value -1 here.                   *)
(***************************************************************************)
\* every name of the catalog
CatalogNames ==
    UNION {{KOOPMAN_POLYNOMIALS[w][i].name : i \in 1..Len(KOOPMAN_POLYNOMIALS[w])} :
             w \in Range(CatalogWidths)}

\* names the catalog does not hold
UnknownNames == {"", "CRC-8", "crc-8f-3", "CRC-32", "CRC-8F-3 "}

LookupNames == CatalogNames \cup UnknownNames

GetPolyIndex(name) ==
    /\ lookup' = [name |-> name, outcome |-> "returned", value |-> get_poly_index(name)]
    /\ UNCHANGED <<arg_digits, arg_max_ids, max_ids, crc_width, id_mask,
                   hash_table_bin, hash_table, pc, in_lines, in_format, strings,
                   hex_strings, cascade, assignments, error, calls, result_bin,
                   result_txt>>

NextLookup == \E name \in LookupNames : GetPolyIndex(name)

SpecLookup == Init /\ [][NextLookup]_vars

(***************************************************************************)
(* What a reader of the packed table sees: the entry at a slot address,    *)
(* as the test bench reads it (mem[i*4:(i+1)*4], little-endian).           *)
(***************************************************************************)
ReadEntry(addr) ==
    FromBytesLittle(Slice(hash_table_bin, addr * id_bytes, (addr + 1) * id_bytes))

(***************************************************************************)
(* Vocabulary of the properties, stated on the state alone.                *)
(***************************************************************************)
\* catalog index (0..7) of a polynomial of the hasher's width
IndexOf(name) == CHOOSE i \in 0..7 : polynomials[i + 1].name = name

\* crc(polynomials[j], s) & id_mask, j a catalog index
MaskedCrc(j, s) == calculate_crc(s, polynomials[j + 1].name)

\* the slot address of symbol s in the block of catalog index j
AddrOf(j, s) == j * Pow2(crc_width) + MaskedCrc(j, s)

Entries == 1..Len(assignments)

EntryKey(n) == assignments[n].key

EntryIndex(n) == IndexOf(assignments[n].value.crc_name)

EntryId(n) == assignments[n].value.unique_id

ValidBit(word) == (word \div Pow2(crc_width)) % 2 = 1

IdField(word) == word % Pow2(crc_width)

\* process_file returned normally
Built == pc = "done"

\* C1: after a successful process_file, for every symbol assigned to catalog
\* index i with id u, the slots of the symbol under every earlier polynomial
\* are zero and its slot under polynomial i is valid and carries u.
C1_FirstValidSlotGivesId ==
    Built =>
      \A n \in Entries :
        /\ \A j \in 0..(EntryIndex(n) - 1) : ReadEntry(AddrOf(j, EntryKey(n))) = 0
        /\ ValidBit(ReadEntry(AddrOf(EntryIndex(n), EntryKey(n))))
        /\ IdField(ReadEntry(AddrOf(EntryIndex(n), EntryKey(n)))) = EntryId(n)

\* C2: after a successful process_file, the four bytes at the slot of every
\* assigned symbol read, little-endian, as id | (1 << crc_width).
C2_PackedRoundTrip ==
    Built =>
      \A n \in Entries :
        ReadEntry(AddrOf(EntryIndex(n), EntryKey(n))) = EntryId(n) + Pow2(crc_width)

\* C3: whenever the assigner returns for N symbols, the ids of the result are
\* exactly 0..N-1, none issued twice.
C3_DenseIds ==
    Built =>
      /\ {EntryId(n) : n \in Entries} = 0..(Len(hex_strings) - 1)
      /\ \A m, n \in Entries : m # n => EntryId(m) # EntryId(n)

\* C3 witness: a build of three symbols spread over at least two polynomials
C3_Witness ==
    /\ Built
    /\ Len(hex_strings) = 3
    /\ \E m, n \in Entries : EntryIndex(m) # EntryIndex(n)

\* the catalog index of every entry of the returned mapping
EntryIndexes ==
    LET Item(n) == <<EntryIndex(n)>>
    IN  ConcatRange(Item, 1, Len(assignments))

\* the masked CRC of every entry's symbol under the entry's polynomial
EntryCrcs ==
    LET Item(n) == <<MaskedCrc(EntryIndex(n), EntryKey(n))>>
    IN  ConcatRange(Item, 1, Len(assignments))

\* C4: in every returned result, two distinct symbols assigned to the same
\* polynomial have different masked CRCs under it.
C4_PerfectPerPolynomial ==
    Built =>
      LET index == EntryIndexes
          crc   == EntryCrcs
      IN  \A m, n \in Entries :
            (m # n /\ index[m] = index[n]) => crc[m] # crc[n]

\* C4 witness: two symbols share a polynomial while a third, which collided
\* under it, went to a later one
C4_Witness ==
    /\ Built
    /\ \E m, n \in Entries : m # n /\ EntryIndex(m) = EntryIndex(n) /\ id_mask > 0
    /\ \E n \in Entries : EntryIndex(n) > 0

\* for every position of hex_strings, the catalog index the cascade
\* assigned the symbol to, 8 when it assigned it to none
AssignedIndexes ==
    LET Item(p) ==
          <<IF hex_strings[p] \in DictKeys(cascade.result)
            THEN IndexOf(DictGet(cascade.result, hex_strings[p]).crc_name)
            ELSE 8>>
    IN  ConcatRange(Item, 1, Len(hex_strings))

\* for every catalog index (position j + 1), the masked CRC of every
\* position of hex_strings
MaskedCrcs ==
    LET Item(k) == <<HashValues(hex_strings, crc_names[k])>>
    IN  ConcatRange(Item, 1, 8)

\* position p shares its slot under catalog index j with another position
\* that was still unassigned when index j was processed (one the cascade
\* assigned to index j or later, or to none)
CollidesAt(at, hv, p, j) ==
    \E q \in 1..Len(at) : q # p /\ at[q] >= j /\ hv[j + 1][q] = hv[j + 1][p]

\* the assigner was called and its loop has ended
CascadeRan == cascade.passes > 0

\* C5: a symbol assigned to polynomials[i] collides, under every earlier
\* polynomial j, with another symbol still unassigned when j was processed,
\* and under polynomial i with none; a symbol never assigned collides under
\* all eight.
C5_PriorityOrder ==
    CascadeRan =>
      LET at == AssignedIndexes
          hv == MaskedCrcs
      IN  \A p \in 1..Len(hex_strings) :
            /\ \A j \in 0..(at[p] - 1) : CollidesAt(at, hv, p, j)
            /\ at[p] < 8 => ~CollidesAt(at, hv, p, at[p])

\* C5 witness: a successful build in which a symbol was deferred past two
\* polynomials
C5_Witness ==
    /\ Built
    /\ \E n \in Entries : EntryIndex(n) >= 2

\* the input symbols the cascade left without an assignment
Unassigned == {p \in 1..Len(hex_strings) : hex_strings[p] \notin DictKeys(cascade.result)}

\* C6: the assigner returns a mapping only if every input symbol has exactly
\* one assignment in it; if symbols are left after the last polynomial it
\* raises, reporting how many are left, and returns nothing.
C6_TotalOrFailed ==
    /\ Built =>
         /\ \A p \in 1..Len(hex_strings) :
              Cardinality({n \in Entries : EntryKey(n) = hex_strings[p]}) = 1
         /\ \A n \in Entries : EntryKey(n) \in Range(hex_strings)
         /\ Unassigned = {}
    /\ (CascadeRan /\ Unassigned # {}) =>
         /\ pc = "exited"
         /\ error = Failure("UnresolvableConflicts", Cardinality(Unassigned))
         /\ cascade.passes = 8
         /\ assignments = <<>>
    /\ error.kind = "UnresolvableConflicts" => Unassigned # {}

\* C6 witness: the build fails with two symbols left after another one was
\* assigned
C6_Witness ==
    /\ error = Failure("UnresolvableConflicts", 2)
    /\ Len(cascade.result) = 1
    /\ Len(hex_strings) = 3

\* C7: the packed table is exactly 4 * 8 * 2^crc_width bytes long, after
\* construction and after process_file has written the assignments.
C7_TableLength ==
    pc \in {"constructed", "done"} =>
      hash_table_bin.len = id_bytes * 8 * Pow2(crc_width)

\* C8: a successful build of N symbols has N <= 2^crc_width, so every id is
\* below 2^crc_width and distinct ids give distinct payloads.
C8_IdsBelowValidityBit ==
    Built =>
      /\ Len(hex_strings) <= Pow2(crc_width)
      /\ \A n \in Entries : EntryId(n) < Pow2(crc_width)
      /\ \A m, n \in Entries :
           EntryId(m) # EntryId(n) => Content(EntryId(m)) # Content(EntryId(n))

\* the smallest power of two that is at least m
RoundedUp(m) ==
    CHOOSE p \in Range(PowersOfTwo) :
      p >= m /\ \A q \in Range(PowersOfTwo) : q >= m => p <= q

\* process_file was called and every line passed the per-line checks
LinesAccepted ==
    pc \in {"done", "exited"} /\ error.kind \notin {"SymbolTooLong", "InputEncoding"}

Copies(list, s) == Cardinality({r \in 1..Len(list) : list[r] = s})

\* C10: an input of the assigner that holds two equal symbols fails with
\* the unresolvable-conflicts error; every copy is left unassigned after
\* all eight polynomials and no mapping is returned.
C10_DuplicatesFail ==
    \A p, q \in 1..Len(hex_strings) :
      (p # q /\ hex_strings[p] = hex_strings[q]) =>
        /\ pc = "exited"
        /\ error.kind = "UnresolvableConflicts"
        /\ error.k >= 2
        /\ cascade.passes = 8
        /\ hex_strings[p] \notin DictKeys(cascade.result)
        /\ Copies(cascade.remaining_strings, hex_strings[p])
             = Copies(hex_strings, hex_strings[p])
        /\ assignments = <<>>
        /\ hash_table = <<>>

\* C10 witness: two lines that differ as text but are equal once normalized
\* fail the build, while a third symbol had been assigned
C10_Witness ==
    /\ error.kind = "UnresolvableConflicts"
    /\ Len(cascade.result) >= 1
    /\ \E p, q \in 1..Len(hex_strings) :
         strings[p] # strings[q] /\ hex_strings[p] = hex_strings[q]

\* floor(log2 n) of the number with the given digits, from its definition
FloorLog2Of(digits) ==
    30 * (Len(digits) - 1)
      + (CHOOSE e \in 0..29 :
           Pow2(e) <= digits[Len(digits)] /\ digits[Len(digits)] < Pow2(e + 1))

LongestSymbol ==
    CHOOSE n \in {0} \cup {Len(strings[i]) : i \in 1..Len(strings)} :
      \A i \in 1..Len(strings) : Len(strings[i]) <= n

\* C12: in ascii and hex format alike, every symbol handed to the assigner
\* is as long as the longest raw symbol, the raw bytes first and zeros after.
C12_FixedLength ==
    CascadeRan =>
      \A p \in 1..Len(hex_strings) :
        /\ Len(hex_strings[p]) = LongestSymbol
        /\ \A j \in 1..LongestSymbol :
             hex_strings[p][j] = (IF j <= Len(strings[p]) THEN strings[p][j] ELSE 0)

\* C13: when process_file fails, with whatever error, the packed table is
\* still all zero and as long as constructed, the readable table is still
\* empty, and no dump is made afterwards.
C13_NoPartialArtifacts ==
    pc = "exited" =>
      /\ hash_table_bin = InitHashTableBin(arg_max_ids)
      /\ hash_table_bin.nz = <<>>
      /\ hash_table = <<>>
      /\ result_bin = <<>>
      /\ result_txt = <<>>

\* C13 witness: a build that fails after the assigner had assigned a symbol
C13_Witness ==
    /\ pc = "exited"
    /\ error.kind = "UnresolvableConflicts"
    /\ Len(cascade.result) >= 1

\* the position of a catalogued name in the list of its own width
PositionInGroup(name) ==
    CHOOSE k \in 0..7 :
      \E w \in Range(CatalogWidths) : KOOPMAN_POLYNOMIALS[w][k + 1].name = name

\* C14: get_poly_index returns, for a catalogued name, its position in
\* 0..7 within the list of its width, and for any other name it fails
\* with an error instead of returning a value.
C14_IndexOrUnknownError ==
    lookup.outcome # "none" =>
      IF lookup.name \in CatalogNames
      THEN /\ lookup.outcome = "returned"
           /\ lookup.value \in 0..7
           /\ lookup.value = PositionInGroup(lookup.name)
      ELSE lookup.outcome = "raised"

\* C15: after a successful process_file the readable table has one entry
\* per input symbol, in input order, each with the unique_id of the
\* symbol's assignment; dump_readable_table writes them in that order.
C15_ReadableTable ==
    Built =>
      /\ Len(hash_table) = Len(strings)
      /\ \A i \in 1..Len(strings) :
           /\ hash_table[i].key = strings[i]
           /\ hash_table[i].value = DictGet(assignments, hex_strings[i]).unique_id
      /\ \A i, j \in 1..Len(hash_table) :
           i # j => hash_table[i].key # hash_table[j].key
      /\ result_txt # <<>> =>
           /\ Len(result_txt[1]) = Len(strings)
           /\ \A i \in 1..Len(strings) :
                /\ result_txt[1][i].string = strings[i]
                /\ result_txt[1][i].unique_id
                     = DictGet(assignments, hex_strings[i]).unique_id

\* C15 witness: a dumped readable table whose ids are not in input order
C15_Witness ==
    /\ Built
    /\ result_txt # <<>>
    /\ \E i, j \in 1..Len(hash_table) :
         i < j /\ hash_table[i].value > hash_table[j].value

\* for every position of hex_strings, the unique_id returned for the symbol
AssignedIds ==
    LET Item(p) == <<DictGet(assignments, hex_strings[p]).unique_id>>
    IN  ConcatRange(Item, 1, Len(hex_strings))

\* (catalog index, input position) of p comes before that of q
Precedes(at, p, q) == at[p] < at[q] \/ (at[p] = at[q] /\ p < q)

\* C16: in a successful build id(s) < id(t) exactly when (catalog index of
\* the polynomial of s, input position of s) is lexicographically smaller
\* than the pair of t.
C16_IdOrder ==
    Built =>
      LET at  == AssignedIndexes
          ids == AssignedIds
      IN  \A p, q \in 1..Len(hex_strings) :
            (ids[p] < ids[q]) <=> Precedes(at, p, q)

\* C16 witness: a build in which a symbol later in the input got a smaller
\* id than an earlier one, and two symbols of one pass got ids in input order
C16_Witness ==
    /\ Built
    /\ LET at  == AssignedIndexes
           ids == AssignedIds
       IN  \E p \in 1..Len(hex_strings) :
             \E q \in (p + 1)..Len(hex_strings) :
               /\ at[p] > at[q]
               /\ \E r \in (q + 1)..Len(hex_strings) :
                    /\ at[q] = at[r]
                    /\ ids[q] < ids[r]
                    /\ ids[r] < ids[p]

\* list a is the beginning of list b
IsPrefix(a, b) == Len(a) <= Len(b) /\ \A i \in 1..Len(a) : b[i] = a[i]

\* what a pass of the loop may do to the locals
PassKeepsOrder ==
    /\ cascade'.passes = cascade.passes + 1
    /\ cascade.passes = 0 \/ cascade.remaining_strings # <<>>
    /\ Len(cascade'.remaining_strings) <= Len(cascade.remaining_strings)
    /\ Range(cascade'.remaining_strings) \subseteq Range(cascade.remaining_strings)
    /\ IsPrefix(cascade.result, cascade'.result)
    /\ \A i \in (Len(cascade.result) + 1)..Len(cascade'.result) :
         cascade'.result[i].value.crc_name = polynomials[cascade'.passes].name

\* C17: assign_hash_functions makes at most 8 passes, in catalog order,
\* and while it is in its loop another pass is always possible and counts
\* up, so it ends; it leaves the loop at the first pass after which
\* nothing remains; from pass to pass the remaining symbols never grow
\* and the assignments already made stay as they are.
C17_CascadeTerminates ==
    /\ [](cascade.passes <= 8)
    /\ [](pc = "assigning" =>
            cascade.passes < 8 /\ (cascade.passes = 0 \/ cascade.remaining_strings # <<>>))
    /\ [](pc \in {"left", "returned", "raised"} =>
            /\ cascade.remaining_strings = <<>> \/ cascade.passes = 8
            /\ cascade = RunCascade(hex_strings))
    /\ [][cascade' # cascade => PassKeepsOrder]_vars

\* C17 witness: the loop was left early, after more than one pass
C17_Witness ==
    /\ pc = "returned"
    /\ cascade.passes > 1
    /\ cascade.passes < 8
    /\ Len(cascade.result) > 1

\* the entries of the packed table that are not zero, by entry number
NonZeroEntries == {off \div id_bytes : off \in DOMAIN hash_table_bin.nz}

\* C18: after a successful build of N symbols the packed table holds
\* exactly N non-zero entries, one per assigned symbol, each at the
\* symbol's own address with the symbol's payload; no two symbols share a
\* slot and every other entry is zero.
C18_SlotOwnership ==
    Built =>
      /\ NonZeroEntries
           = {AddrOf(EntryIndex(n), EntryKey(n)) : n \in Entries}
      /\ Cardinality(NonZeroEntries) = Len(assignments)
      /\ \A n \in Entries :
           ReadEntry(AddrOf(EntryIndex(n), EntryKey(n))) = Content(EntryId(n))
      /\ \A m, n \in Entries :
           m # n => AddrOf(EntryIndex(m), EntryKey(m)) # AddrOf(EntryIndex(n), EntryKey(n))

\* C19: once process_file has returned, neither another process_file on
\* the same input nor a dump changes the packed table (content and
\* length) or the readable table.
C19_RebuildIdempotent ==
    [][pc = "done" => (hash_table_bin' = hash_table_bin /\ hash_table' = hash_table)]_vars

====
